---- MODULE Spec2Model ----
(***************************************************************************)
(* A model of the chat backend: the HTTP handlers of app/main.py and       *)
(* chatkit.py, and the PostgresStore of app/postgres_store.py, over the    *)
(* two tables chat_threads and chat_thread_items.                          *)
(*                                                                         *)
(* Python and JSON values are strings: None is the token "None", a missing *)
(* dictionary key is the token "<absent>", json.dumps(v) is the pair       *)
(* <<"json", v>>.  Timestamps are integers.                                *)
(***************************************************************************)
EXTENDS Integers, Sequences, FiniteSets, TLC

(***************************************************************************)
(* Bounds of the model.                                                    *)
(***************************************************************************)
\* concurrent HTTP requests
NumReqs == 2
\* connections of the handlers' asyncpg pool
PoolSize == 1
\* writes (saves and deletes) of one behaviour of SpecStore
MaxWrites == 3
\* timestamps a caller of the store may give: 1..MaxTime
MaxTime == 2
\* the limits a caller of the store may give: 0..MaxLimit
MaxLimit == 2

Reqs == 1..NumReqs

(***************************************************************************)
(* Python values.                                                          *)
(***************************************************************************)
None == "None"
Absent == "<absent>"
EmptyDict == "{}"

\* dict.get(key): None when the key is missing
Get(d, key) == IF d[key] = Absent THEN None ELSE d[key]

\* a slip: only a missing or null value counts, the empty string does not
Falsy_NoneOnly(v) == v = None

\* `not v` for the values of the model
Falsy(v) == v \in {None, "", EmptyDict}

\* `v or {}`
OrEmptyDict(v) == IF Falsy(v) THEN EmptyDict ELSE v

\* json.dumps(v)
JsonDumps(v) == <<"json", v>>

\* the dictionary {"text": text}
TextDict(text) == "{text: " \o text \o "}"

\* str(uuid.uuid4()): the k-th identifier request r draws, never drawn twice
Uuid4(r, k) == "uuid-" \o ToString(r) \o "-" \o k

(***************************************************************************)
(* Configuration.                                                          *)
(***************************************************************************)
OPENAI_API_KEY == "sk-api-key"

\* what the session-issuance call can return as session.client_secret
SessionSecrets == {"ek-session-1"}

(***************************************************************************)
(* The inputs of the handlers.                                             *)
(***************************************************************************)
Messages == {Absent, None, "", "hi"}
ClientThreadIds == {"t1"}
ChatBodies == [message : Messages, thread_id : {Absent} \cup ClientThreadIds]

\* body["workflow"]: missing, null, {} or a dictionary with or without "id"
Workflows ==
    {[isdict |-> FALSE, id |-> Absent]} \cup
    [isdict : {TRUE}, id : {Absent, "wf-1"}]

\* workflow.get("id") of a workflow that is a dictionary
WorkflowId(w) == Get(w, "id")

\* `not workflow or not workflow.get("id")`
MissingWorkflowId(w) == ~w.isdict \/ Falsy(WorkflowId(w))

\* the completion endpoint's answers: a status and, for a 200, the envelope,
\* given by the text at output[0].content[0] (Absent: no such path)
Upstreams ==
    [status_code : {200, 500}, text : {Absent, "4"}] \cup
    {[status_code |-> 200, text |-> ""]}

\* a slip: the status of the answer is not looked at
UpstreamFailed_Unchecked(u) == FALSE

\* response.status_code != 200
UpstreamFailed(u) == u.status_code # 200

\* result["output"][0]["content"][0]["text"] raises
EnvelopeMalformed(u) == u.text = Absent

\* the envelope as a value
Envelope(u) == "{output: [{content: [{text: " \o u.text \o "}]}]}"

VARIABLES
    threads,    \* the rows of chat_threads
    items,      \* the rows of chat_thread_items
    now,        \* the database clock, NOW()
    free,       \* the free connections of the handlers' pool
    req,        \* the HTTP requests
    last        \* the last store operation: its arguments and its result

vars == <<threads, items, now, free, req, last>>

(***************************************************************************)
(* SQL statements over the tables.                                         *)
(***************************************************************************)
HasThread(rows, id) == \E row \in rows : row.id = id

ThreadRow(rows, id) == CHOOSE row \in rows : row.id = id

HasItem(rows, id) == \E row \in rows : row.id = id

ItemRow(rows, id) == CHOOSE row \in rows : row.id = id

\* a slip: ON CONFLICT (id) DO UPDATE SET created_at, title, metadata
InsertThread_DoUpdate(rows, id, t) ==
    {row \in rows : row.id # id} \cup
        {[id |-> id, created_at |-> t, title |-> None, metadata |-> JsonDumps(EmptyDict)]}

\* INSERT INTO chat_threads (id, created_at, metadata)
\* VALUES ($1, NOW(), '{}'::jsonb) ON CONFLICT (id) DO NOTHING
InsertThreadDoNothing(rows, id, t) ==
    IF HasThread(rows, id)
    THEN rows
    ELSE rows \cup {[id |-> id, created_at |-> t, title |-> None,
                     metadata |-> JsonDumps(EmptyDict)]}

\* a slip: $4 and $5 given in the wrong order
InsertItem_Swapped(rows, id, thread_id, t, role, content, raw) ==
    rows \cup {[id |-> id, thread_id |-> thread_id, created_at |-> t,
                role |-> role, content |-> raw, raw |-> content]}

\* INSERT INTO chat_thread_items (id, thread_id, created_at, role, content, raw)
\* VALUES ($1, $2, NOW(), $3, $4, $5)
InsertItem(rows, id, thread_id, t, role, content, raw) ==
    rows \cup {[id |-> id, thread_id |-> thread_id, created_at |-> t,
                role |-> role, content |-> content, raw |-> raw]}

\* DELETE FROM chat_threads WHERE id=$1
DeleteThreadRows(rows, id) == {row \in rows : row.id # id}

\* DELETE FROM chat_thread_items WHERE id=$1
DeleteItemRows(rows, id) == {row \in rows : row.id # id}

\* a slip: the conflicting row is replaced, created_at included
UpsertThread_Replace(rows, id, created_at, title, metadata) ==
    {row \in rows : row.id # id} \cup
        {[id |-> id, created_at |-> created_at, title |-> title, metadata |-> metadata]}

\* INSERT INTO chat_threads (id, created_at, title, metadata) VALUES ($1,$2,$3,$4)
\* ON CONFLICT (id) DO UPDATE SET title=EXCLUDED.title, metadata=EXCLUDED.metadata
UpsertThread(rows, id, created_at, title, metadata) ==
    IF HasThread(rows, id)
    THEN {IF row.id = id
          THEN [row EXCEPT !.title = title, !.metadata = metadata]
          ELSE row : row \in rows}
    ELSE rows \cup {[id |-> id, created_at |-> created_at, title |-> title,
                     metadata |-> metadata]}

\* INSERT INTO chat_thread_items (id, thread_id, created_at, role, content, raw)
\* VALUES ($1,...,$6) ON CONFLICT (id) DO UPDATE
\* SET role=EXCLUDED.role, content=EXCLUDED.content, raw=EXCLUDED.raw
UpsertItem(rows, id, thread_id, created_at, role, content, raw) ==
    IF HasItem(rows, id)
    THEN {IF row.id = id
          THEN [row EXCEPT !.role = role, !.content = content, !.raw = raw]
          ELSE row : row \in rows}
    ELSE rows \cup {[id |-> id, thread_id |-> thread_id, created_at |-> created_at,
                     role |-> role, content |-> content, raw |-> raw]}

(***************************************************************************)
(* The handlers' connection pool.                                          *)
(***************************************************************************)
\* the connections a request holds once `async with pool.acquire()` is entered
AcquireConn(held) == held + 1

\* a slip: the connection is kept when the block is left
ReleaseConn_Kept(held) == held

\* the connections a request holds once the `async with` block is left
ReleaseConn(held) == held - 1

(***************************************************************************)
(* The HTTP requests.                                                      *)
(***************************************************************************)
NoResponse ==
    [status_code |-> 0, error |-> None, thread_id |-> None, reply |-> None,
     client_secret |-> None]

\* JSONResponse({"error": message}, status_code=code)
ErrorResponse(code, message) ==
    [NoResponse EXCEPT !.status_code = code, !.error = message]

IdleRequest ==
    [pc |-> "idle", endpoint |-> None, user_message |-> None,
     thread_id |-> None, held |-> 0, calls |-> 0, wrote |-> <<>>,
     upstream |-> [status_code |-> 0, text |-> Absent],
     assistant_text |-> None, response |-> NoResponse]

\* a thread row some earlier save_thread left in the table
EarlierThreads ==
    {{}, UpsertThread({}, "t1", 0, "Title", JsonDumps("{k: v}"))}

NoOperation == [seq |-> 0, op |-> "none"]

Init ==
    /\ threads \in EarlierThreads
    /\ items = {}
    /\ now = 1
    /\ free = PoolSize
    /\ req = [r \in Reqs |-> IdleRequest]
    /\ last = NoOperation

\* NOW(): the requests of one behaviour run within one reading of the database
\* clock; the rows saved before them (EarlierThreads) carry an earlier one
NOW == now

(***************************************************************************)
(* POST /api/chat                                                          *)
(***************************************************************************)
\* body = await request.json() ... if not thread_id: thread_id = str(uuid.uuid4())
chat_begin(r) ==
    /\ req[r].pc = "idle"
    /\ \E body \in ChatBodies :
        LET user_message == Get(body, "message")
            thread_id == Get(body, "thread_id")
            received == [req[r] EXCEPT !.endpoint = "/api/chat",
                                       !.user_message = user_message,
                                       !.thread_id = thread_id]
        IN  IF Falsy(user_message)
            THEN req' = [req EXCEPT ![r] =
                     [received EXCEPT !.pc = "done",
                                      !.response = ErrorResponse(400, "Missing message")]]
            ELSE req' = [req EXCEPT ![r] =
                     [received EXCEPT !.pc = "acquire_1",
                                      !.thread_id = IF Falsy(thread_id)
                                                    THEN Uuid4(r, "thread")
                                                    ELSE thread_id]]
    /\ UNCHANGED <<threads, items, now, free, last>>

\* async with pool.acquire() as conn:  (the first block)
chat_acquire_1(r) ==
    /\ req[r].pc = "acquire_1"
    /\ free > 0
    /\ free' = free - 1
    /\ req' = [req EXCEPT ![r].pc = "insert_thread",
                          ![r].held = AcquireConn(req[r].held)]
    /\ UNCHANGED <<threads, items, now, last>>

\* INSERT INTO chat_threads ... ON CONFLICT (id) DO NOTHING
chat_insert_thread(r) ==
    /\ req[r].pc = "insert_thread"
    /\ threads' = InsertThreadDoNothing(threads, req[r].thread_id, NOW)
    /\ req' = [req EXCEPT ![r].pc = "insert_user",
                          ![r].wrote = Append(req[r].wrote, "thread")]
    /\ UNCHANGED <<items, now, free, last>>

\* INSERT INTO chat_thread_items ... "user"
chat_insert_user(r) ==
    /\ req[r].pc = "insert_user"
    /\ items' = InsertItem(items, Uuid4(r, "user"), req[r].thread_id, NOW, "user",
                           JsonDumps(TextDict(req[r].user_message)),
                           JsonDumps(TextDict(req[r].user_message)))
    /\ req' = [req EXCEPT ![r].pc = "post",
                          ![r].wrote = Append(req[r].wrote, "user")]
    /\ UNCHANGED <<threads, now, free, last>>

\* the first block is left; response = await client.post(...) is sent
chat_post(r) ==
    /\ req[r].pc = "post"
    /\ free' = free + (req[r].held - ReleaseConn(req[r].held))
    /\ req' = [req EXCEPT ![r].pc = "calling",
                          ![r].held = ReleaseConn(req[r].held),
                          ![r].calls = req[r].calls + 1,
                          ![r].wrote = Append(req[r].wrote, "call")]
    /\ UNCHANGED <<threads, items, now, last>>

\* the answer arrives: the status check and the extraction of the text
chat_response(r) ==
    /\ req[r].pc = "calling"
    /\ \E u \in Upstreams :
        LET answered == [req[r] EXCEPT !.upstream = u]
        IN  IF UpstreamFailed(u)
            THEN req' = [req EXCEPT ![r] =
                     [answered EXCEPT !.pc = "done",
                                      !.response = ErrorResponse(500, "OpenAI request failed")]]
            ELSE IF EnvelopeMalformed(u)
            THEN req' = [req EXCEPT ![r] =
                     [answered EXCEPT !.pc = "done",
                                      !.response = ErrorResponse(500,
                                          "Unexpected OpenAI response format")]]
            ELSE req' = [req EXCEPT ![r] =
                     [answered EXCEPT !.pc = "acquire_2", !.assistant_text = u.text]]
    /\ UNCHANGED <<threads, items, now, free, last>>

\* async with pool.acquire() as conn:  (the second block)
chat_acquire_2(r) ==
    /\ req[r].pc = "acquire_2"
    /\ free > 0
    /\ free' = free - 1
    /\ req' = [req EXCEPT ![r].pc = "insert_assistant",
                          ![r].held = AcquireConn(req[r].held)]
    /\ UNCHANGED <<threads, items, now, last>>

\* INSERT INTO chat_thread_items ... "assistant"
chat_insert_assistant(r) ==
    /\ req[r].pc = "insert_assistant"
    /\ items' = InsertItem(items, Uuid4(r, "assistant"), req[r].thread_id, NOW,
                           "assistant",
                           JsonDumps(TextDict(req[r].assistant_text)),
                           JsonDumps(Envelope(req[r].upstream)))
    /\ req' = [req EXCEPT ![r].pc = "return",
                          ![r].wrote = Append(req[r].wrote, "assistant")]
    /\ UNCHANGED <<threads, now, free, last>>

\* the second block is left; return {"thread_id": thread_id, "reply": assistant_text}
chat_return(r) ==
    /\ req[r].pc = "return"
    /\ free' = free + (req[r].held - ReleaseConn(req[r].held))
    /\ req' = [req EXCEPT ![r].pc = "done",
                          ![r].held = ReleaseConn(req[r].held),
                          ![r].response = [NoResponse EXCEPT
                                              !.status_code = 200,
                                              !.thread_id = req[r].thread_id,
                                              !.reply = req[r].assistant_text]]
    /\ UNCHANGED <<threads, items, now, last>>

chat(r) ==
    \/ chat_begin(r)
    \/ chat_acquire_1(r)
    \/ chat_insert_thread(r)
    \/ chat_insert_user(r)
    \/ chat_post(r)
    \/ chat_response(r)
    \/ chat_acquire_2(r)
    \/ chat_insert_assistant(r)
    \/ chat_return(r)

(***************************************************************************)
(* POST /api/create-session and POST /api/chatkit                          *)
(***************************************************************************)
\* the client_secret of create_session's 200 response
CreateSessionSecret(issued) == OPENAI_API_KEY

\* the client_secret of chatkit's response
ChatkitSecret(issued) == issued

create_session(r) ==
    /\ req[r].pc = "idle"
    /\ \E w \in Workflows, status_code \in {200, 500}, issued \in SessionSecrets :
        LET received == [req[r] EXCEPT !.endpoint = "/api/create-session",
                                       !.pc = "done"]
        IN  IF MissingWorkflowId(w)
            THEN req' = [req EXCEPT ![r] =
                     [received EXCEPT !.response = ErrorResponse(400, "Missing workflow id")]]
            ELSE IF status_code # 200
            THEN req' = [req EXCEPT ![r] =
                     [received EXCEPT !.calls = 1,
                                      !.response = ErrorResponse(500,
                                          "Failed to create OpenAI session")]]
            ELSE req' = [req EXCEPT ![r] =
                     [received EXCEPT !.calls = 1,
                                      !.response = [NoResponse EXCEPT
                                          !.status_code = 200,
                                          !.client_secret = CreateSessionSecret(issued)]]]
    /\ UNCHANGED <<threads, items, now, free, last>>

\* client.chatkit.sessions.create(...) returns a session or raises
chatkit(r) ==
    /\ req[r].pc = "idle"
    /\ \E issued \in SessionSecrets, raised \in BOOLEAN :
        req' = [req EXCEPT ![r] =
                   [req[r] EXCEPT !.endpoint = "/api/chatkit", !.pc = "done", !.calls = 1,
                                  !.response =
                                      IF raised
                                      THEN ErrorResponse(500, "Internal Server Error")
                                      ELSE [NoResponse EXCEPT
                                               !.status_code = 200,
                                               !.client_secret = ChatkitSecret(issued)]]]
    /\ UNCHANGED <<threads, items, now, free, last>>

(***************************************************************************)
(* PostgresStore                                                           *)
(***************************************************************************)
StoreThreadIds == {"t1", "t2"}
ItemIds == {"i1", "i2"}
Times == 1..MaxTime
Limits == 0..MaxLimit
Orders == {"asc", "desc"}

\* the ThreadMetadata objects a caller may save
ThreadObjects ==
    [id : StoreThreadIds, created_at : Times, title : {None, "Title"},
     metadata : {None, "{k: v}"}]

\* the ThreadItem objects a caller may save
ItemObjects ==
    [id : ItemIds, created_at : Times, role : {"user", "assistant"},
     content : {"{text: c}"}]

\* item.model_dump()
ModelDump(item) ==
    "{id: " \o item.id \o ", created_at: " \o ToString(item.created_at)
        \o ", role: " \o item.role \o ", content: " \o item.content \o "}"

\* ThreadItem(**raw)
ThreadItem(raw) == <<"ThreadItem", raw>>

Min(a, b) == IF a <= b THEN a ELSE b

Range(s) == {s[i] : i \in DOMAIN s}

\* a slip: the order asked for is not looked at
Direction_AlwaysAsc(order) == "ASC"

\* direction = "DESC" if order == "desc" else "ASC"
Direction(order) == IF order = "desc" THEN "DESC" ELSE "ASC"

\* row a may come before row b under ORDER BY created_at <direction>
MayPrecede(a, b, direction) ==
    IF direction = "DESC" THEN a.created_at >= b.created_at
                          ELSE a.created_at <= b.created_at

\* the results of SELECT ... FROM rows ORDER BY created_at <direction> LIMIT <limit>:
\* rows of equal created_at come in any order
OrderByLimit(rows, direction, limit) ==
    LET k == Min(limit, Cardinality(rows))
    IN  {s \in [1..k -> rows] :
            /\ \A i, j \in 1..k : i < j => s[i] # s[j] /\ MayPrecede(s[i], s[j], direction)
            /\ \A row \in rows \ Range(s) : \A i \in 1..k : MayPrecede(s[i], row, direction)}

\* SELECT id, created_at, role, content, raw
ItemColumns(row) ==
    [id |-> row.id, created_at |-> row.created_at, role |-> row.role,
     content |-> row.content, raw |-> row.raw]

\* Page(data=..., has_more=False, after=None)
Page(data) == [data |-> data, has_more |-> FALSE, after |-> None]

\* the record of a write: what was written, and the rows it met
Written(op, args, rows) ==
    [seq |-> last.seq + 1, op |-> op, args |-> args, error |-> None,
     rows |-> rows, result |-> None]

\* the record of a read: the rows fetched, and what was returned or raised
Read(op, args, error, rows, result) ==
    [seq |-> last.seq, op |-> op, args |-> args, error |-> error,
     rows |-> rows, result |-> result]

\* a behaviour of SpecStore writes at most MaxWrites times
MayWrite == last.seq < MaxWrites

\* the rows of chat_threads once `thread` is saved
SaveThreadRows(rows, thread) ==
    UpsertThread(rows, thread.id, thread.created_at, thread.title,
                 JsonDumps(OrEmptyDict(thread.metadata)))

save_thread(thread) ==
    /\ threads' = SaveThreadRows(threads, thread)
    /\ last' = Written("save_thread", thread,
                       IF HasThread(threads, thread.id) THEN 1 ELSE 0)
    /\ UNCHANGED <<items, now, free, req>>

load_thread(thread_id) ==
    /\ last' = IF ~HasThread(threads, thread_id)
               THEN Read("load_thread", thread_id, "NotFoundError", 0, None)
               ELSE LET row == ThreadRow(threads, thread_id)
                    IN  Read("load_thread", thread_id, None, 1,
                             [id |-> row.id, created_at |-> row.created_at,
                              title |-> row.title, metadata |-> row.metadata])
    /\ UNCHANGED <<threads, items, now, free, req>>

save_item(thread_id, item) ==
    /\ items' = UpsertItem(items, item.id, thread_id, item.created_at, item.role,
                           JsonDumps(OrEmptyDict(item.content)),
                           JsonDumps(ModelDump(item)))
    /\ last' = Written("save_item", [thread_id |-> thread_id, item |-> item],
                       IF HasItem(items, item.id) THEN 1 ELSE 0)
    /\ UNCHANGED <<threads, now, free, req>>

load_thread_items(thread_id, after, limit, order) ==
    /\ \E rows \in OrderByLimit({row \in items : row.thread_id = thread_id},
                                Direction(order), limit) :
        last' = Read("load_thread_items",
                     [thread_id |-> thread_id, after |-> after, limit |-> limit,
                      order |-> order],
                     None,
                     [i \in DOMAIN rows |-> ItemColumns(rows[i])],
                     Page([i \in DOMAIN rows |-> ThreadItem(rows[i].raw)]))
    /\ UNCHANGED <<threads, items, now, free, req>>

load_threads(limit, after, order) ==
    /\ \E rows \in OrderByLimit(threads, Direction(order), limit) :
        last' = Read("load_threads",
                     [limit |-> limit, after |-> after, order |-> order],
                     None, rows,
                     Page([i \in DOMAIN rows |->
                              [id |-> rows[i].id, created_at |-> rows[i].created_at,
                               title |-> rows[i].title, metadata |-> rows[i].metadata]]))
    /\ UNCHANGED <<threads, items, now, free, req>>

\* a slip: the thread's items are deleted with it
delete_thread_cascade(thread_id) ==
    /\ threads' = DeleteThreadRows(threads, thread_id)
    /\ items' = {row \in items : row.thread_id # thread_id}
    /\ UNCHANGED <<now, free, req>>

delete_thread(thread_id) ==
    /\ threads' = DeleteThreadRows(threads, thread_id)
    /\ UNCHANGED <<items, now, free, req>>

delete_thread_item(thread_id, item_id) ==
    /\ items' = DeleteItemRows(items, item_id)
    /\ last' = Written("delete_thread_item",
                       [thread_id |-> thread_id, item_id |-> item_id],
                       IF HasItem(items, item_id) THEN 1 ELSE 0)
    /\ UNCHANGED <<threads, now, free, req>>

(***************************************************************************)
(* The requests, with delete_thread run by another task meanwhile.         *)
(***************************************************************************)
concurrent_delete_thread ==
    /\ \E thread_id \in ClientThreadIds : delete_thread(thread_id)
    /\ UNCHANGED last

Next ==
    \/ \E r \in Reqs : chat(r)
    \/ \E r \in Reqs : create_session(r)
    \/ \E r \in Reqs : chatkit(r)
    \/ concurrent_delete_thread

Spec == Init /\ [][Next]_vars

(***************************************************************************)
(* The store's thread operations: reads and at most MaxWrites writes, from *)
(* an empty chat_threads and the item rows an earlier save_item left.      *)
(***************************************************************************)
EarlierItem == [id |-> "i1", created_at |-> 1, role |-> "user", content |-> "{text: c}"]

EarlierItems ==
    {{}, UpsertItem({}, EarlierItem.id, "t1", EarlierItem.created_at, EarlierItem.role,
                    JsonDumps(OrEmptyDict(EarlierItem.content)),
                    JsonDumps(ModelDump(EarlierItem)))}

InitThreads ==
    /\ threads = {}
    /\ items \in EarlierItems
    /\ now = 1
    /\ free = PoolSize
    /\ req = [r \in Reqs |-> IdleRequest]
    /\ last = NoOperation

store_save_thread ==
    /\ MayWrite
    /\ \E thread \in ThreadObjects : save_thread(thread)

store_load_thread ==
    \E thread_id \in StoreThreadIds : load_thread(thread_id)

store_load_threads ==
    \E limit \in Limits, after \in {None, "t1"}, order \in Orders :
        load_threads(limit, after, order)

store_delete_thread ==
    /\ MayWrite
    /\ \E thread_id \in StoreThreadIds :
        /\ delete_thread(thread_id)
        /\ last' = Written("delete_thread", thread_id,
                           IF HasThread(threads, thread_id) THEN 1 ELSE 0)

NextThreads ==
    \/ store_save_thread
    \/ store_load_thread
    \/ store_load_threads
    \/ store_delete_thread

SpecThreads == InitThreads /\ [][NextThreads]_vars

(***************************************************************************)
(* The store's item operations: reads and at most MaxWrites writes, from   *)
(* empty tables.                                                           *)
(***************************************************************************)
InitItems ==
    /\ threads = {}
    /\ items = {}
    /\ now = 1
    /\ free = PoolSize
    /\ req = [r \in Reqs |-> IdleRequest]
    /\ last = NoOperation

store_save_item ==
    /\ MayWrite
    /\ \E thread_id \in StoreThreadIds, item \in ItemObjects : save_item(thread_id, item)

store_load_thread_items ==
    \E thread_id \in StoreThreadIds, after \in {None, "i1"}, limit \in Limits,
       order \in Orders :
        load_thread_items(thread_id, after, limit, order)

store_delete_thread_item ==
    /\ MayWrite
    /\ \E thread_id \in StoreThreadIds, item_id \in ItemIds :
           delete_thread_item(thread_id, item_id)

NextItems ==
    \/ store_save_item
    \/ store_load_thread_items
    \/ store_delete_thread_item

SpecItems == InitItems /\ [][NextItems]_vars

(***************************************************************************)
(* Properties of the handlers and of the store.                            *)
(***************************************************************************)
IsChat(r) == req[r].endpoint = "/api/chat"

\* the item rows request r wrote
ItemsOf(r) == {row \in items : row.id \in {Uuid4(r, "user"), Uuid4(r, "assistant")}}

\* the user item of request r, as the handler writes it
UserItemOf(r) ==
    {row \in items :
        /\ row.id = Uuid4(r, "user")
        /\ row.thread_id = req[r].thread_id
        /\ row.role = "user"
        /\ row.content = JsonDumps(TextDict(req[r].user_message))}

\* the assistant item of request r, holding `text`
AssistantItemOf(r, text) ==
    {row \in items :
        /\ row.id = Uuid4(r, "assistant")
        /\ row.thread_id = req[r].thread_id
        /\ row.role = "assistant"
        /\ row.content = JsonDumps(TextDict(text))}

\* the upstream call of request r was answered, and the answer is a failure:
\* a status other than 200, or a 200 without output[0].content[0].text
UpstreamFailureOf(r) ==
    /\ IsChat(r)
    /\ req[r].upstream.status_code # 0
    /\ req[r].upstream.status_code # 200 \/ req[r].upstream.text = Absent

\* the upstream call of request r was answered with a 200 that holds a text
UpstreamSuccessOf(r) ==
    /\ IsChat(r)
    /\ req[r].upstream.status_code = 200
    /\ req[r].upstream.text # Absent

\* C1: a 200 response of POST /api/create-session never carries the API key
\* as client_secret: the secret is one the session-issuance call issued.
C1_SecretIsNotApiKey ==
    \A r \in Reqs :
        req[r].endpoint = "/api/create-session" /\ req[r].response.status_code = 200
        => /\ req[r].response.client_secret # OPENAI_API_KEY
           /\ req[r].response.client_secret \in SessionSecrets

\* C2: whenever the chat handler inserts an item row (user or assistant) with
\* thread_id T, chat_threads holds a row with id T at that moment.
C2_ThreadRowBeforeItem ==
    [][\A r \in Reqs :
          req[r].pc \in {"insert_user", "insert_assistant"} /\ req'[r].pc # req[r].pc
          => HasThread(threads, req[r].thread_id)]_vars

\* C3: no request calls upstream more than once; when the call fails (non-200,
\* or a 200 without the text), the request ends with a 500, having written its
\* user item and nothing after it: no assistant item of the request exists.
C3_UpstreamFailure ==
    \A r \in Reqs :
        /\ req[r].calls <= 1
        /\ UpstreamFailureOf(r)
           => /\ req[r].pc = "done"
              /\ req[r].response.status_code = 500
              /\ req[r].calls = 1
              /\ req[r].wrote = <<"thread", "user", "call">>
              /\ ItemsOf(r) = UserItemOf(r)
              /\ Cardinality(ItemsOf(r)) = 1

C3_Witness ==
    \E r \in Reqs :
        /\ UpstreamFailureOf(r)
        /\ req[r].upstream.status_code = 200
        /\ req[r].response.status_code = 500
        /\ Cardinality(ItemsOf(r)) = 1

\* what C4 says of a finished request r whose upstream call succeeded
C4_Exchange(r) ==
    /\ req[r].response.status_code = 200
    /\ req[r].response.thread_id = req[r].thread_id
    /\ req[r].thread_id \in ClientThreadIds \cup {Uuid4(r, "thread")}
    /\ req[r].response.reply = req[r].upstream.text
    /\ req[r].calls = 1
    /\ req[r].wrote = <<"thread", "user", "call", "assistant">>
    /\ Cardinality(ItemsOf(r)) = 2
    /\ ItemsOf(r) = UserItemOf(r) \cup AssistantItemOf(r, req[r].response.reply)

\* C4 as stated: the exchange, with a reply that is never empty.
C4_Original ==
    \A r \in Reqs :
        UpstreamSuccessOf(r) /\ req[r].pc = "done"
        => C4_Exchange(r) /\ req[r].response.reply # ""

\* C4, amended: a chat request with a message whose upstream call succeeds
\* leaves the thread row present when it inserts it, writes exactly two items
\* with its thread_id in the order user item, upstream call, assistant item,
\* and returns 200 with that thread_id and the reply the envelope held, which
\* is the stored assistant text; the reply is empty when the envelope's text is.
C4_SuccessfulExchange ==
    /\ [](\A r \in Reqs :
            /\ UpstreamSuccessOf(r) /\ req[r].pc = "done" => C4_Exchange(r)
            /\ IsChat(r) /\ req[r].response.status_code = 200 => UpstreamSuccessOf(r))
    /\ [][\A r \in Reqs :
            req[r].pc = "insert_thread" /\ req'[r].pc # "insert_thread"
            => HasThread(threads', req[r].thread_id)]_vars

C4_Witness ==
    \E r \in Reqs :
        /\ UpstreamSuccessOf(r)
        /\ req[r].pc = "done"
        /\ req[r].thread_id = Uuid4(r, "thread")
        /\ req[r].response.reply = "4"
        /\ HasThread(threads, req[r].thread_id)
        /\ Cardinality(ItemsOf(r)) = 2

\* C5: chat_threads never holds two rows of one id; a chat request whose
\* thread_id already has a row leaves chat_threads as it is (created_at, title
\* and metadata of the row included), and each item the request inserts is one
\* new row of chat_thread_items with that thread_id.
C5_RepostKeepsThread ==
    /\ [](\A a, b \in threads : a.id = b.id => a = b)
    /\ [][\A r \in Reqs :
            /\ req[r].pc = "insert_thread" /\ req'[r].pc # "insert_thread"
               /\ HasThread(threads, req[r].thread_id)
               => threads' = threads /\ items' = items
            /\ req[r].pc \in {"insert_user", "insert_assistant"} /\ req'[r].pc # req[r].pc
               => /\ threads' = threads
                  /\ \E row \in items' \ items :
                        /\ items' = items \cup {row}
                        /\ row.thread_id = req[r].thread_id]_vars

C5_Witness ==
    \E r1, r2 \in Reqs :
        /\ r1 # r2
        /\ \A r \in {r1, r2} :
              /\ IsChat(r) /\ req[r].pc = "done" /\ req[r].thread_id = "t1"
              /\ Cardinality(ItemsOf(r)) = 2
        /\ \E row \in threads : row.id = "t1" /\ row.title = "Title" /\ row.created_at = 0

\* C6: a chat request whose message is missing, null or empty ends at once with
\* 400 {"error": "Missing message"}, whatever its thread_id: it writes no row,
\* leaves both tables as they are and makes no upstream call.
C6_MissingMessage ==
    /\ [](\A r \in Reqs :
            IsChat(r) /\ req[r].user_message \in {None, ""}
            => /\ req[r].pc = "done"
               /\ req[r].response = ErrorResponse(400, "Missing message")
               /\ req[r].calls = 0
               /\ req[r].wrote = <<>>
               /\ req[r].held = 0
               /\ ItemsOf(r) = {})
    /\ [][\A r \in Reqs :
            ~IsChat(r) /\ req'[r].endpoint = "/api/chat"
                /\ req'[r].user_message \in {None, ""}
            => threads' = threads /\ items' = items]_vars

C6_Witness ==
    \E r \in Reqs :
        /\ IsChat(r)
        /\ req[r].user_message = ""
        /\ req[r].thread_id = "t1"
        /\ req[r].response.status_code = 400

\* C10: a request whose upstream call is in flight holds no connection, a
\* request waiting for its second connection holds none, and the connections
\* held and the free ones are the pool's.
C10_NoConnectionAcrossCall ==
    /\ \A r \in Reqs :
          /\ req[r].held \in {0, 1}
          /\ req[r].pc \in {"calling", "acquire_2", "done"} => req[r].held = 0
    /\ free + Cardinality({r \in Reqs : req[r].held = 1}) = PoolSize

C10_Witness ==
    \E r1, r2 \in Reqs :
        /\ req[r1].pc = "calling"
        /\ req[r2].held = 1
        /\ free = PoolSize - 1

\* the rows the last load_thread_items fetched are rows of the thread asked
\* for, each once, at most `limit` of them, and the page holds one item per
\* row and reports no further page
C7_Page ==
    LET rows == last.rows
        args == last.args
    IN  /\ Len(rows) <= args.limit
        /\ \A i \in DOMAIN rows :
              /\ HasItem(items, rows[i].id)
              /\ ItemRow(items, rows[i].id).thread_id = args.thread_id
              /\ ItemColumns(ItemRow(items, rows[i].id)) = rows[i]
        /\ \A i, j \in DOMAIN rows : i < j => rows[i].id # rows[j].id
        /\ last.error = None
        /\ last.result.has_more = FALSE
        /\ Len(last.result.data) = Len(rows)
        /\ \A i \in DOMAIN rows : last.result.data[i] = ThreadItem(rows[i].raw)

\* C7 as stated: the creation timestamps strictly increase (decrease for "desc").
C7_Original ==
    last.op = "load_thread_items"
    => /\ C7_Page
       /\ \A i, j \in DOMAIN last.rows :
             i < j => IF last.args.order = "desc"
                      THEN last.rows[i].created_at > last.rows[j].created_at
                      ELSE last.rows[i].created_at < last.rows[j].created_at

\* C7, amended: load_thread_items returns only items of that thread, at most
\* `limit` of them, ordered by the stored created_at, never decreasing (never
\* increasing for "desc"): rows of equal created_at come in any order; it
\* reports has_more = false whatever `after` is.
C7_LoadThreadItems ==
    last.op = "load_thread_items"
    => /\ C7_Page
       /\ \A i, j \in DOMAIN last.rows :
             i < j => IF last.args.order = "desc"
                      THEN last.rows[i].created_at >= last.rows[j].created_at
                      ELSE last.rows[i].created_at <= last.rows[j].created_at

C7_Witness ==
    /\ last.op = "load_thread_items"
    /\ last.args.order = "desc"
    /\ last.args.after = "i1"
    /\ Len(last.rows) = 2
    /\ last.rows[1].created_at > last.rows[2].created_at

\* C8: save_thread of a thread whose id has no row adds the row as given; of
\* one whose id has a row, it sets that row's title and metadata and keeps its
\* created_at; saving the same thread again changes nothing; no other thread
\* row and no item row changes.
C8_SaveThreadUpsert ==
    [][last'.seq # last.seq /\ last'.op = "save_thread"
       => LET thread == last'.args
              saved == {row \in threads' : row.id = thread.id}
          IN  /\ items' = items
              /\ {row \in threads' : row.id # thread.id}
                     = {row \in threads : row.id # thread.id}
              /\ Cardinality(saved) = 1
              /\ \A row \in saved :
                    /\ row.title = thread.title
                    /\ row.metadata = JsonDumps(IF thread.metadata = None
                                                THEN EmptyDict ELSE thread.metadata)
                    /\ row.created_at = IF HasThread(threads, thread.id)
                                        THEN ThreadRow(threads, thread.id).created_at
                                        ELSE thread.created_at
              /\ SaveThreadRows(threads', thread) = threads']_vars

C8_Witness ==
    /\ last.op = "save_thread"
    /\ last.rows = 1
    /\ \E row \in threads :
          /\ row.id = last.args.id
          /\ row.created_at # last.args.created_at
          /\ row.title = "Title"
          /\ row.metadata = JsonDumps("{k: v}")

\* C9: delete_thread(id) removes the chat_threads row of that id when there is
\* one, raises nothing when there is none, and leaves every other thread row
\* and every item row, those of the thread included, as they are.
C9_DeleteThreadOnly ==
    [][last'.seq # last.seq /\ last'.op = "delete_thread"
       => /\ items' = items
          /\ ~HasThread(threads', last'.args)
          /\ {row \in threads' : row.id # last'.args}
                 = {row \in threads : row.id # last'.args}
          /\ last'.error = None]_vars

C9_Witness ==
    /\ last.op = "delete_thread"
    /\ last.rows = 1
    /\ \E row \in items : row.thread_id = last.args
    /\ \E row \in threads : row.id # last.args

====
